---------------------------- MODULE Spec2Model ----------------------------
(***************************************************************************)
(* Model of src/app.py: a Flask application over one SQLite file holding   *)
(* two tables, search_count (keyword -> count) and melon_chart_data (the   *)
(* latest chart snapshot), with a scraper that fills the chart.            *)
(*                                                                         *)
(* Text is a sequence of one-character strings.  An HTML element that      *)
(* select_one() may not find is a record [present, text].                  *)
(***************************************************************************)
EXTENDS Integers, Sequences, FiniteSets, TLC

(***************************************************************************)
(* Text                                                                    *)
(***************************************************************************)

\* str.strip() removes these from both ends.
Whitespace == {" "}

\* The ASCII decimal digits used by the model's pages.
AsciiDigit == {"0", "1", "2", "3"}

\* Characters c with c.isdigit() true.  "sup2" stands for U+00B2 SUPERSCRIPT
\* TWO: str.isdigit() accepts it (Numeric_Type=Digit) and int() rejects it.
UnicodeDigit == AsciiDigit \cup {"sup2"}

DigitValue(c) ==
  CASE c = "0" -> 0 [] c = "1" -> 1 [] c = "2" -> 2 [] c = "3" -> 3

RECURSIVE lstrip(_)
lstrip(s) ==
  IF s # <<>> /\ Head(s) \in Whitespace THEN lstrip(Tail(s)) ELSE s

RECURSIVE rstrip(_)
rstrip(s) ==
  IF s # <<>> /\ s[Len(s)] \in Whitespace
  THEN rstrip(SubSeq(s, 1, Len(s) - 1))
  ELSE s

\* str.strip()
strip(s) == rstrip(lstrip(s))

\* str.isdigit(): non-empty and every character a digit character.
isdigit(s) == s # <<>> /\ \A i \in 1..Len(s) : s[i] \in UnicodeDigit

RECURSIVE DecimalValue(_)
DecimalValue(s) ==
  IF s = <<>> THEN 0
  ELSE 10 * DecimalValue(SubSeq(s, 1, Len(s) - 1)) + DigitValue(s[Len(s)])

\* int(s) on a string that passed isdigit(): the value, or ValueError when a
\* character is a digit character that is not a decimal digit.
int(s) ==
  IF \A i \in 1..Len(s) : s[i] \in AsciiDigit
  THEN [raised |-> FALSE, value |-> DecimalValue(s)]
  ELSE [raised |-> TRUE, value |-> 0]

\* The code point of a character: the order of SQLite's BINARY collation.
ord(c) ==
  CASE c = " " -> 32 [] c = "%" -> 37 [] c = "0" -> 48 [] c = "1" -> 49
    [] c = "2" -> 50 [] c = "3" -> 51 [] c = "A" -> 65 [] c = "B" -> 66
    [] c = "T" -> 84 [] c = "_" -> 95 [] c = "a" -> 97 [] c = "b" -> 98
    [] c = "k" -> 107 [] c = "x" -> 120 [] c = "sup2" -> 178
    [] c = "no_title" -> 51228 [] c = "no_artist" -> 50500

\* memcmp order of two texts (BINARY collation): a < b.
RECURSIVE TextLess(_, _)
TextLess(a, b) ==
  IF b = <<>> THEN FALSE
  ELSE IF a = <<>> THEN TRUE
  ELSE IF ord(Head(a)) # ord(Head(b)) THEN ord(Head(a)) < ord(Head(b))
  ELSE TextLess(Tail(a), Tail(b))

\* SQLite's LIKE folds the case of ASCII letters only.
Fold(c) == CASE c = "A" -> "a" [] c = "B" -> "b" [] c = "T" -> "t" [] OTHER -> c

\* text LIKE pattern, no ESCAPE clause: '%' matches any run of characters,
\* '_' any one character, any other character itself up to ASCII case.
RECURSIVE Like(_, _)
Like(pattern, text) ==
  IF pattern = <<>> THEN text = <<>>
  ELSE IF Head(pattern) = "%"
    THEN Like(Tail(pattern), text) \/ (text # <<>> /\ Like(pattern, Tail(text)))
  ELSE /\ text # <<>>
       /\ Head(pattern) = "_" \/ Fold(Head(pattern)) = Fold(Head(text))
       /\ Like(Tail(pattern), Tail(text))

(***************************************************************************)
(* Melon chart scraping: fetch_melon_chart                                 *)
(***************************************************************************)

\* What select_one() returns: an element with its text, or None.
El(t) == [present |-> TRUE, text |-> t]
NoEl == [present |-> FALSE, text |-> <<>>]

\* The placeholders of lines 115 and 116 (each one opaque token here).
NoTitle == <<"no_title">>
NoArtist == <<"no_artist">>

\* Lines 110-119, one pass of the loop body over `row`: the chart after it,
\* or the exception int() raises.
ParseRow(chart, row) ==
  LET rank == IF row.rank.present THEN strip(row.rank.text) ELSE <<>>
      title == IF row.title.present THEN strip(row.title.text) ELSE NoTitle
      artist == IF row.artist.present THEN strip(row.artist.text) ELSE NoArtist
  IN IF isdigit(rank)
     THEN IF int(rank).raised
          THEN [raised |-> TRUE, chart |-> chart]
          ELSE [raised |-> FALSE,
                chart |-> Append(chart, [rank |-> int(rank).value,
                                         title |-> title, artist |-> artist])]
     ELSE [raised |-> FALSE, chart |-> chart]

\* Lines 106-121: the for loop from row i on, stopped by the first exception.
RECURSIVE ParseRows(_, _, _)
ParseRows(rows, i, chart) ==
  IF i > Len(rows) THEN [raised |-> FALSE, chart |-> chart]
  ELSE LET step == ParseRow(chart, rows[i])
       IN IF step.raised THEN step ELSE ParseRows(rows, i + 1, step.chart)

\* fetch_melon_chart() on the outcome r of requests.get: r.raises when the
\* request raised (network error, timeout), else r.status_code and the row
\* elements soup.select() finds in r.text.
fetch_melon_chart(r) ==
  IF r.raises THEN <<>>
  ELSE IF r.status_code # 200 THEN <<>>
  ELSE LET parsed == ParseRows(r.rows, 1, <<>>)
       IN IF parsed.raised THEN <<>> ELSE parsed.chart

(***************************************************************************)
(* SQL statements.  search_count is the sequence of its rows in rowid      *)
(* order, each [keyword, count]; melon_chart_data is the set of its rows,  *)
(* each [ranking, title, artist].                                          *)
(***************************************************************************)

\* UpdateCount setting the count to 1 in place of adding 1.
UpdateCountReset(rows, keyword) ==
  [rows |-> [i \in DOMAIN rows |->
               IF rows[i].keyword = keyword
               THEN [rows[i] EXCEPT !.count = 1]
               ELSE rows[i]],
   rowcount |-> Cardinality({i \in DOMAIN rows : rows[i].keyword = keyword})]

\* Line 64: UPDATE search_count SET count = count + 1 WHERE keyword = ?
\* The table after it, and cursor.rowcount.
UpdateCount(rows, keyword) ==
  [rows |-> [i \in DOMAIN rows |->
               IF rows[i].keyword = keyword
               THEN [rows[i] EXCEPT !.count = @ + 1]
               ELSE rows[i]],
   rowcount |-> Cardinality({i \in DOMAIN rows : rows[i].keyword = keyword})]

\* Line 66: INSERT INTO search_count (keyword, count) VALUES (?, 1), under
\* line 43's UNIQUE(keyword): IntegrityError when the keyword has a row.
InsertKeyword(rows, keyword) ==
  IF \E i \in DOMAIN rows : rows[i].keyword = keyword
  THEN [raised |-> TRUE, rows |-> rows]
  ELSE [raised |-> FALSE,
        rows |-> Append(rows, [keyword |-> keyword, count |-> 1])]

\* LIMIT n of a result: SQLite reads a negative n as no limit.
Limit(result, n) ==
  IF n < 0 \/ n >= Len(result) THEN result ELSE SubSeq(result, 1, n)

\* The row that ORDER BY count DESC puts first among the rowids `left`; rows
\* of equal count come in the order tie gives ("asc": rowid ascending,
\* "desc": rowid descending; SQL leaves it open).
FirstByCount(rows, left, tie) ==
  CHOOSE i \in left : \A j \in left :
    \/ rows[i].count > rows[j].count
    \/ rows[i].count = rows[j].count
       /\ IF tie = "asc" THEN i <= j ELSE i >= j

RECURSIVE OrderByCountDesc(_, _, _)
OrderByCountDesc(rows, left, tie) ==
  IF left = {} THEN <<>>
  ELSE LET i == FirstByCount(rows, left, tie)
       IN <<rows[i]>> \o OrderByCountDesc(rows, left \ {i}, tie)

\* SelectTopKeywords without its ORDER BY: the first rows in rowid order.
SelectFirstKeywords(rows, limit, tie) == Limit(rows, limit)

\* Line 180 with its limit as a parameter:
\* SELECT keyword, count FROM search_count ORDER BY count DESC LIMIT limit
SelectTopKeywords(rows, limit, tie) ==
  Limit(OrderByCountDesc(rows, DOMAIN rows, tie), limit)

\* Line 133: INSERT OR REPLACE INTO melon_chart_data (ranking, title, artist),
\* under line 54's UNIQUE(ranking): a row of the same ranking is deleted first.
InsertOrReplace(rows, item) ==
  {r \in rows : r.ranking # item.rank}
    \cup {[ranking |-> item.rank, title |-> item.title, artist |-> item.artist]}

\* Lines 131-135: the loop's inserts from item i on.
RECURSIVE InsertItems(_, _, _)
InsertItems(rows, chart_data, i) ==
  IF i > Len(chart_data) THEN rows
  ELSE InsertItems(InsertOrReplace(rows, chart_data[i]), chart_data, i + 1)

\* ORDER BY ranking ASC of a set of chart rows.
RECURSIVE OrderByRanking(_)
OrderByRanking(rows) ==
  IF rows = {} THEN <<>>
  ELSE LET first == CHOOSE r \in rows : \A q \in rows : r.ranking <= q.ranking
       IN <<first>> \o OrderByRanking(rows \ {first})

\* Line 189: SELECT ranking, title, artist FROM melon_chart_data
\* ORDER BY ranking ASC
SelectChart(rows) == OrderByRanking(rows)

\* Lines 216-219: ... WHERE artist LIKE ? ORDER BY ranking ASC, with the
\* parameter f"%{query}%".
SelectByArtist(rows, query) ==
  OrderByRanking({r \in rows : Like(<<"%">> \o query \o <<"%">>, r.artist)})

\* GROUP BY artist with COUNT(*): one [artist, song_count] per artist.
GroupByArtist(rows) ==
  {[artist |-> a, song_count |-> Cardinality({r \in rows : r.artist = a})] :
     a \in {r.artist : r \in rows}}

\* OrderBySongCount without the count: ORDER BY artist ASC alone.
RECURSIVE OrderByArtistOnly(_)
OrderByArtistOnly(groups) ==
  IF groups = {} THEN <<>>
  ELSE LET first == CHOOSE g \in groups : \A h \in groups :
                      g = h \/ TextLess(g.artist, h.artist)
       IN <<first>> \o OrderByArtistOnly(groups \ {first})

\* ORDER BY song_count DESC, artist ASC of the groups.
RECURSIVE OrderBySongCount(_)
OrderBySongCount(groups) ==
  IF groups = {} THEN <<>>
  ELSE LET first == CHOOSE g \in groups : \A h \in groups :
                      \/ g = h
                      \/ g.song_count > h.song_count
                      \/ g.song_count = h.song_count
                         /\ TextLess(g.artist, h.artist)
       IN <<first>> \o OrderBySongCount(groups \ {first})

\* Lines 139-149: get_artist_count_ranking(limit) on the table `rows`.
get_artist_count_ranking(rows, limit) ==
  Limit(OrderBySongCount(GroupByArtist(rows)), limit)

\* Lines 61-67 run alone on the table `rows`: the table committed, or the
\* exception the INSERT raises.
increment_search_count(rows, keyword) ==
  LET updated == UpdateCount(rows, keyword)
  IN IF updated.rowcount = 0
     THEN InsertKeyword(updated.rows, keyword)
     ELSE [raised |-> FALSE, rows |-> updated.rows]

\* save_melon_chart_to_db without line 129's DELETE.
save_without_delete(rows, chart_data) == InsertItems(rows, chart_data, 1)

\* Lines 126-136 run alone: the table committed.
save_melon_chart_to_db(rows, chart_data) == InsertItems({}, chart_data, 1)

\* Lines 73-90: the proxy's answer for each outcome of the call ("no_keys":
\* line 75; "ok": line 87; "api_error": line 88; "request_failed": line 90).
ProxyOutcomes == {"no_keys", "ok", "api_error", "request_failed"}

search_naver_blog(outcome) ==
  IF outcome = "ok"
  THEN [items |-> <<"item">>, error |-> "none"]
  ELSE [items |-> <<>>, error |-> outcome]

(***************************************************************************)
(* Bounds and inputs                                                       *)
(***************************************************************************)

\* Request workers of the concurrent specifications.
NWorkers == 2
\* Requests started in one run of the concurrent specifications.
MaxRequests == 3
\* record_search calls in one run of Spec.
MaxCalls == 2
\* Rows of a page in Spec.
MaxRows == 3
\* Rows of a page in SpecFetch.
MaxFetchRows == 3
\* Limits tried on get_artist_count_ranking.
MaxLimit == 3
\* Distinct keywords, and record_search calls, in one run of SpecRank.
NKeywords == 11
MaxRankCalls == 12

\* Line 139: limit=10.  Line 180: LIMIT 10.
DefaultLimit == 10
RankingLimit == 10

Workers == 1..NWorkers

\* All sequences over S of length at most n.
SeqUpTo(S, n) == UNION {[1..k -> S] : k \in 0..n}

\* query strings of /blog in Spec: blank ones, and two keywords with and
\* without surrounding blanks.
BlogQueries == {<<>>, <<" ">>, <<"a">>, <<" ", "a", " ">>, <<"b">>}

\* The i-th keyword of SpecRank: "k" i times.
KeywordName(i) == [j \in 1..i |-> "k"]

\* artist_query strings of /artist-search.
ArtistQueries ==
  {<<>>, <<" ">>, <<"a">>, <<"A">>, <<"b">>, <<"_">>, <<"%">>, <<"a", "_">>,
   <<" ", "A", "b">>}

Page(rows) == [raises |-> FALSE, status_code |-> 200, rows |-> rows]

\* Row elements of the pages of Spec: three ranks, two artists.
ChartRows ==
  [rank : {El(<<"1">>), El(<<"2">>), El(<<"3">>)},
   title : {El(<<"T">>)},
   artist : {El(<<"a", "_">>), El(<<"A", "b">>)}]

\* Outcomes of requests.get in Spec: every page of at most MaxRows rows, a
\* request that raises, two error statuses, and a page with a rank that
\* int() rejects after a good row.
ChartResponses ==
  {Page(rows) : rows \in SeqUpTo(ChartRows, MaxRows)}
    \cup {[raises |-> TRUE, status_code |-> 0, rows |-> <<>>],
          [raises |-> FALSE, status_code |-> 404, rows |-> <<>>],
          [raises |-> FALSE, status_code |-> 500, rows |-> <<>>],
          Page(<<[rank |-> El(<<"1">>), title |-> El(<<"T">>),
                  artist |-> El(<<"A", "b">>)],
                 [rank |-> El(<<"sup2">>), title |-> El(<<"T">>),
                  artist |-> El(<<"A", "b">>)]>>)}

\* Row elements of the pages of SpecFetch: ranks that are missing, blank,
\* padded, non-numeric, and digit characters int() rejects; titles and
\* artists present or missing.
FetchRows ==
  [rank : {NoEl, El(<<>>), El(<<"1">>), El(<<" ", "2", " ">>), El(<<"1", "0">>),
           El(<<"x">>), El(<<"1", "x">>), El(<<"sup2">>)},
   title : {NoEl, El(<<" ", "T">>)},
   artist : {NoEl, El(<<"A", "b", " ">>)}]

FetchResponses ==
  {Page(rows) : rows \in SeqUpTo(FetchRows, MaxFetchRows)}
    \cup {[raises |-> TRUE, status_code |-> 0, rows |-> <<>>],
          [raises |-> FALSE, status_code |-> 404,
           rows |-> <<[rank |-> El(<<"1">>), title |-> NoEl, artist |-> NoEl]>>]}

\* Inputs of the concurrent specifications.
ConcQueries == {<<"a">>, <<" ">>}
ConcArtistQueries == {<<"A">>}
ConcResponses ==
  {Page(<<[rank |-> El(<<"1">>), title |-> El(<<"T">>), artist |-> El(<<"A", "b">>)],
          [rank |-> El(<<"2">>), title |-> El(<<"T">>), artist |-> El(<<"a", "_">>)]>>),
   Page(<<[rank |-> El(<<"2">>), title |-> El(<<"T">>), artist |-> El(<<"A", "b">>)]>>),
   [raises |-> FALSE, status_code |-> 500, rows |-> <<>>]}

(***************************************************************************)
(* State                                                                   *)
(***************************************************************************)

VARIABLES
  search_count,      \* the committed table search_count
  melon_chart_data,  \* the committed table melon_chart_data
  write_lock,        \* the worker whose connection holds the file's write lock, or 0
  tx,                \* per worker: the tables as its open transaction has them
  pc,                \* per worker: where its request handler stands
  req,               \* per worker: the request, the handler's locals, and a record of what it did
  resp,              \* per worker: the response of its request
  calls,             \* keyword -> record_search calls made so far
  started,           \* requests started so far
  page,              \* SpecFetch: the outcome of requests.get
  chart              \* SpecFetch: what fetch_melon_chart returned for it

vars ==
  <<search_count, melon_chart_data, write_lock, tx, pc, req, resp, calls,
    started, page, chart>>

NoTx == [search_count |-> <<>>, melon_chart_data |-> {}]

NoReq ==
  [kind |-> "none", query |-> <<>>, data |-> <<>>, i |-> 0, rowcount |-> 0,
   fetch_failed |-> FALSE, saved |-> FALSE, old |-> {}, write_failed |-> FALSE,
   overlapped |-> FALSE]

NoResp ==
  [status |-> 0, template |-> "none", rows |-> <<>>, items |-> <<>>,
   error |-> "none", searched |-> FALSE]

\* render_template(template, ...) with the rows, items and error given.
Rendered(template, rows, items, error, searched) ==
  [status |-> 200, template |-> template, rows |-> rows, items |-> items,
   error |-> error, searched |-> searched]

\* Flask's answer to an exception no handler catches.
InternalServerError == [NoResp EXCEPT !.status = 500]

\* redirect(url_for("melon_chart"))
Redirect == [NoResp EXCEPT !.status = 302, !.template = "melon_chart"]

Init ==
  /\ search_count = <<>>
  /\ melon_chart_data = {}
  /\ write_lock = 0
  /\ tx = [w \in Workers |-> NoTx]
  /\ pc = [w \in Workers |-> "idle"]
  /\ req = [w \in Workers |-> NoReq]
  /\ resp = [w \in Workers |-> NoResp]
  /\ calls = <<>>
  /\ started = 0
  /\ page = [raises |-> TRUE, status_code |-> 0, rows |-> <<>>]
  /\ chart = [fetched |-> FALSE, rows |-> <<>>]

\* calls after one more record_search(keyword).
Called(keyword) ==
  IF keyword \in DOMAIN calls
  THEN [calls EXCEPT ![keyword] = @ + 1]
  ELSE calls @@ (keyword :> 1)

CallsOf(keyword) == IF keyword \in DOMAIN calls THEN calls[keyword] ELSE 0

RECURSIVE SumCalls(_)
SumCalls(keywords) ==
  IF keywords = {} THEN 0
  ELSE LET k == CHOOSE k \in keywords : TRUE
       IN calls[k] + SumCalls(keywords \ {k})

TotalCalls == SumCalls(DOMAIN calls)

\* ReadView without isolation: a SELECT reads what the open transaction of
\* another connection has written so far.
DirtyReadView ==
  IF write_lock # 0
  THEN tx[write_lock]
  ELSE [search_count |-> search_count, melon_chart_data |-> melon_chart_data]

\* What a SELECT of a connection with no open transaction reads: the
\* committed tables (a writer's changes are in its own transaction until
\* commit, line 67 and line 136).
ReadView ==
  [search_count |-> search_count, melon_chart_data |-> melon_chart_data]

Respond(w, request, response) ==
  /\ pc' = [pc EXCEPT ![w] = "responded"]
  /\ req' = [req EXCEPT ![w] = request]
  /\ resp' = [resp EXCEPT ![w] = response]

(***************************************************************************)
(* Requests that only read: one action per handler.  The SELECT holds the  *)
(* file's shared lock from execute() to the end of fetchall(), so no       *)
(* commit falls inside it.                                                 *)
(***************************************************************************)

\* Lines 155-157
index(w) ==
  /\ pc[w] = "idle"
  /\ Respond(w, [NoReq EXCEPT !.kind = "index"],
             Rendered("index.html", <<>>, <<>>, "none", FALSE))
  /\ UNCHANGED <<search_count, melon_chart_data, write_lock, tx, calls, page, chart>>

\* Lines 176-182
ranking(w, tie) ==
  /\ pc[w] = "idle"
  /\ Respond(w, [NoReq EXCEPT !.kind = "ranking", !.overlapped = (write_lock # 0)],
             Rendered("ranking.html",
                      SelectTopKeywords(ReadView.search_count, RankingLimit, tie),
                      <<>>, "none", FALSE))
  /\ UNCHANGED <<search_count, melon_chart_data, write_lock, tx, calls, page, chart>>

\* Lines 185-191
melon_chart(w) ==
  /\ pc[w] = "idle"
  /\ Respond(w, [NoReq EXCEPT !.kind = "melon_chart", !.overlapped = (write_lock # 0)],
             Rendered("melon_chart.html", SelectChart(ReadView.melon_chart_data),
                      <<>>, "none", FALSE))
  /\ UNCHANGED <<search_count, melon_chart_data, write_lock, tx, calls, page, chart>>

\* Lines 202-205
artist_ranking(w) ==
  /\ pc[w] = "idle"
  /\ Respond(w, [NoReq EXCEPT !.kind = "artist_ranking", !.overlapped = (write_lock # 0)],
             Rendered("artist_ranking.html",
                      get_artist_count_ranking(ReadView.melon_chart_data, DefaultLimit),
                      <<>>, "none", FALSE))
  /\ UNCHANGED <<search_count, melon_chart_data, write_lock, tx, calls, page, chart>>

\* Lines 208-223
artist_search(w, artist_query) ==
  /\ pc[w] = "idle"
  /\ LET query == strip(artist_query)
         results == IF query # <<>>
                    THEN SelectByArtist(ReadView.melon_chart_data, query)
                    ELSE <<>>
     IN Respond(w, [NoReq EXCEPT !.kind = "artist_search", !.query = query,
                                  !.overlapped = (write_lock # 0)],
                Rendered("artist_search.html", results, <<>>, "none", FALSE))
  /\ UNCHANGED <<search_count, melon_chart_data, write_lock, tx, calls, page, chart>>

\* Lines 29-33, after the response: the connection is closed, and what it
\* had not committed is rolled back.
close_db(w) ==
  /\ pc[w] \in {"responded", "error"}
  /\ pc' = [pc EXCEPT ![w] = "idle"]
  /\ req' = [req EXCEPT ![w] = NoReq]
  /\ resp' = [resp EXCEPT ![w] = NoResp]
  /\ tx' = [tx EXCEPT ![w] = NoTx]
  /\ write_lock' = IF write_lock = w THEN 0 ELSE write_lock
  /\ UNCHANGED <<search_count, melon_chart_data, calls, page, chart>>

(***************************************************************************)
(* /blog and /update-chart-db, each as one action: the handler run with no *)
(* other connection open.                                                  *)
(***************************************************************************)

\* Whether fetch_melon_chart's attempt on r failed: the request raised, the
\* status is not 200, or parsing raised (lines 100-103, 122).
FetchFailed(r) ==
  r.raises \/ r.status_code # 200 \/ ParseRows(r.rows, 1, <<>>).raised

\* Lines 160-173.  An exception of increment_search_count is not caught.
blog(w, query, outcome) ==
  /\ pc[w] = "idle"
  /\ write_lock = 0
  /\ LET q == strip(query)
         counted == increment_search_count(search_count, q)
         found == search_naver_blog(outcome)
     IN IF q = <<>>
        THEN /\ Respond(w, [NoReq EXCEPT !.kind = "blog"],
                        Rendered("search_blog.html", <<>>, <<>>, "none", FALSE))
             /\ UNCHANGED <<search_count, calls>>
        ELSE /\ calls' = Called(q)
             /\ IF counted.raised
                THEN /\ pc' = [pc EXCEPT ![w] = "error"]
                     /\ req' = [req EXCEPT ![w] =
                                  [NoReq EXCEPT !.kind = "blog", !.query = q,
                                                !.write_failed = TRUE]]
                     /\ resp' = [resp EXCEPT ![w] = InternalServerError]
                     /\ UNCHANGED search_count
                ELSE /\ search_count' = counted.rows
                     /\ Respond(w, [NoReq EXCEPT !.kind = "blog", !.query = q],
                                Rendered("search_blog.html", <<>>, found.items,
                                         found.error, TRUE))
  /\ UNCHANGED <<melon_chart_data, write_lock, tx, page, chart>>

\* update_chart_db without line 197's test: whatever fetch returned is saved.
update_chart_db_unguarded(w, r) ==
  /\ pc[w] = "idle"
  /\ write_lock = 0
  /\ LET data == fetch_melon_chart(r)
     IN /\ melon_chart_data' = save_melon_chart_to_db(melon_chart_data, data)
        /\ Respond(w, [NoReq EXCEPT !.kind = "update_chart_db", !.data = data,
                                    !.fetch_failed = FetchFailed(r),
                                    !.saved = TRUE],
                   Redirect)
  /\ UNCHANGED <<search_count, write_lock, tx, calls, page, chart>>

\* Lines 194-199
update_chart_db(w, r) ==
  /\ pc[w] = "idle"
  /\ write_lock = 0
  /\ LET data == fetch_melon_chart(r)
     IN /\ melon_chart_data' =
             IF data # <<>>
             THEN save_melon_chart_to_db(melon_chart_data, data)
             ELSE melon_chart_data
        /\ Respond(w, [NoReq EXCEPT !.kind = "update_chart_db", !.data = data,
                                    !.fetch_failed = FetchFailed(r),
                                    !.saved = (data # <<>>)],
                   Redirect)
  /\ UNCHANGED <<search_count, write_lock, tx, calls, page, chart>>

(***************************************************************************)
(* /blog and /update-chart-db statement by statement, for workers that     *)
(* run side by side.  Each worker has a connection of its own (lines       *)
(* 21-26).  sqlite3 opens a transaction before the first UPDATE, INSERT or *)
(* DELETE of a connection, and that statement takes the database file's    *)
(* write lock, held until commit() or close(); a statement that finds the  *)
(* lock taken waits for it.                                                *)
(***************************************************************************)

\* CanWrite without the write lock: every statement runs at once.
CanWriteUnlocked(w) == TRUE

\* Whether worker w's first writing statement gets the write lock now.
CanWrite(w) == write_lock = 0

\* Lines 162 and 167-168, up to the call of increment_search_count.
blog_begin(w, query) ==
  /\ pc[w] = "idle"
  /\ LET q == strip(query)
     IN IF q = <<>>
        THEN /\ Respond(w, [NoReq EXCEPT !.kind = "blog"],
                        Rendered("search_blog.html", <<>>, <<>>, "none", FALSE))
             /\ UNCHANGED calls
        ELSE /\ pc' = [pc EXCEPT ![w] = "update"]
             /\ req' = [req EXCEPT ![w] = [NoReq EXCEPT !.kind = "blog", !.query = q]]
             /\ calls' = Called(q)
             /\ UNCHANGED resp
  /\ UNCHANGED <<search_count, melon_chart_data, write_lock, tx, page, chart>>

\* Line 64
exec_update(w) ==
  /\ pc[w] = "update"
  /\ CanWrite(w)
  /\ LET updated == UpdateCount(search_count, req[w].query)
     IN /\ tx' = [tx EXCEPT ![w] = [search_count |-> updated.rows,
                                    melon_chart_data |-> melon_chart_data]]
        /\ req' = [req EXCEPT ![w].rowcount = updated.rowcount]
        /\ pc' = [pc EXCEPT ![w] = IF updated.rowcount = 0 THEN "insert" ELSE "commit"]
  /\ write_lock' = w
  /\ UNCHANGED <<search_count, melon_chart_data, resp, calls, page, chart>>

\* Lines 65-66
exec_insert(w) ==
  /\ pc[w] = "insert"
  /\ LET inserted == InsertKeyword(tx[w].search_count, req[w].query)
     IN IF inserted.raised
        THEN /\ pc' = [pc EXCEPT ![w] = "error"]
             /\ resp' = [resp EXCEPT ![w] = InternalServerError]
             /\ UNCHANGED tx
        ELSE /\ pc' = [pc EXCEPT ![w] = "commit"]
             /\ tx' = [tx EXCEPT ![w].search_count = inserted.rows]
             /\ UNCHANGED resp
  /\ UNCHANGED <<search_count, melon_chart_data, write_lock, req, calls, page, chart>>

\* Lines 67 and 136, and for /update-chart-db line 199.
commit(w) ==
  /\ pc[w] = "commit"
  /\ search_count' = tx[w].search_count
  /\ melon_chart_data' = tx[w].melon_chart_data
  /\ write_lock' = 0
  /\ tx' = [tx EXCEPT ![w] = NoTx]
  /\ IF req[w].kind = "blog"
     THEN /\ pc' = [pc EXCEPT ![w] = "search"]
          /\ UNCHANGED <<req, resp>>
     ELSE /\ pc' = [pc EXCEPT ![w] = "responded"]
          /\ req' = [req EXCEPT ![w].saved = TRUE]
          /\ resp' = [resp EXCEPT ![w] = Redirect]
  /\ UNCHANGED <<calls, page, chart>>

\* Lines 169-173
blog_search(w, outcome) ==
  /\ pc[w] = "search"
  /\ LET found == search_naver_blog(outcome)
     IN /\ pc' = [pc EXCEPT ![w] = "responded"]
        /\ resp' = [resp EXCEPT ![w] =
                      Rendered("search_blog.html", <<>>, found.items, found.error, TRUE)]
  /\ UNCHANGED <<search_count, melon_chart_data, write_lock, tx, req, calls, page, chart>>

\* Lines 196-197, up to the call of save_melon_chart_to_db.
update_begin(w, r) ==
  /\ pc[w] = "idle"
  /\ LET data == fetch_melon_chart(r)
         request == [NoReq EXCEPT !.kind = "update_chart_db", !.data = data,
                                  !.fetch_failed = FetchFailed(r)]
     IN IF data # <<>>
        THEN /\ pc' = [pc EXCEPT ![w] = "delete"]
             /\ req' = [req EXCEPT ![w] = request]
             /\ UNCHANGED resp
        ELSE Respond(w, request, Redirect)
  /\ UNCHANGED <<search_count, melon_chart_data, write_lock, tx, calls, page, chart>>

\* Line 129
exec_delete(w) ==
  /\ pc[w] = "delete"
  /\ CanWrite(w)
  /\ write_lock' = w
  /\ tx' = [tx EXCEPT ![w] = [search_count |-> search_count, melon_chart_data |-> {}]]
  /\ req' = [req EXCEPT ![w].i = 1, ![w].old = melon_chart_data]
  /\ pc' = [pc EXCEPT ![w] = "insert_item"]
  /\ UNCHANGED <<search_count, melon_chart_data, resp, calls, page, chart>>

\* Lines 131-135, one item
exec_insert_item(w) ==
  /\ pc[w] = "insert_item"
  /\ tx' = [tx EXCEPT ![w].melon_chart_data =
              InsertOrReplace(@, req[w].data[req[w].i])]
  /\ req' = [req EXCEPT ![w].i = @ + 1]
  /\ pc' = [pc EXCEPT ![w] =
              IF req[w].i = Len(req[w].data) THEN "commit" ELSE "insert_item"]
  /\ UNCHANGED <<search_count, melon_chart_data, write_lock, resp, calls, page, chart>>

\* A statement or commit of sqlite3 raises (disk full, I/O error, a lock not
\* had in time): nothing in the handlers catches it.
storage_error(w) ==
  /\ pc[w] \in {"update", "insert", "commit", "delete", "insert_item"}
  /\ pc' = [pc EXCEPT ![w] = "error"]
  /\ req' = [req EXCEPT ![w].write_failed = TRUE]
  /\ resp' = [resp EXCEPT ![w] = InternalServerError]
  /\ UNCHANGED <<search_count, melon_chart_data, write_lock, tx, calls, page, chart>>

\* SpecFetch: fetch_melon_chart on the page drawn.
fetch ==
  /\ ~chart.fetched
  /\ chart' = [fetched |-> TRUE, rows |-> fetch_melon_chart(page)]
  /\ UNCHANGED <<search_count, melon_chart_data, write_lock, tx, pc, req, resp,
                 calls, started, page>>

(***************************************************************************)
(* Specifications                                                          *)
(***************************************************************************)

\* Spec: one worker, requests of every kind one after another.
Next ==
  \/ index(1) /\ UNCHANGED started
  \/ \E query \in BlogQueries, outcome \in ProxyOutcomes :
       TotalCalls < MaxCalls /\ blog(1, query, outcome) /\ UNCHANGED started
  \/ \E tie \in {"asc", "desc"} : ranking(1, tie) /\ UNCHANGED started
  \/ melon_chart(1) /\ UNCHANGED started
  \/ \E r \in ChartResponses : update_chart_db(1, r) /\ UNCHANGED started
  \/ artist_ranking(1) /\ UNCHANGED started
  \/ \E artist_query \in ArtistQueries :
       artist_search(1, artist_query) /\ UNCHANGED started
  \/ close_db(1) /\ UNCHANGED started

Spec == Init /\ [][Next]_vars

\* SpecRank: /blog and /ranking one after another, with enough keywords for
\* LIMIT 10 to cut.  Keywords matter to the code only up to equality, so a
\* keyword not yet searched is always the next unused name.
NextRank ==
  \/ \E i \in 1..NKeywords :
       /\ i <= Len(search_count) + 1
       /\ TotalCalls < MaxRankCalls
       /\ blog(1, KeywordName(i), "ok")
       /\ UNCHANGED started
  \/ \E tie \in {"asc", "desc"} : ranking(1, tie) /\ UNCHANGED started
  \/ close_db(1) /\ UNCHANGED started

SpecRank == Init /\ [][NextRank]_vars

\* SpecFetch: fetch_melon_chart on every page of FetchResponses.
InitFetch ==
  /\ search_count = <<>>
  /\ melon_chart_data = {}
  /\ write_lock = 0
  /\ tx = [w \in Workers |-> NoTx]
  /\ pc = [w \in Workers |-> "idle"]
  /\ req = [w \in Workers |-> NoReq]
  /\ resp = [w \in Workers |-> NoResp]
  /\ calls = <<>>
  /\ started = 0
  /\ page \in FetchResponses
  /\ chart = [fetched |-> FALSE, rows |-> <<>>]

NextFetch == fetch

SpecFetch == InitFetch /\ [][NextFetch]_vars

\* SpecConc: NWorkers workers whose handlers interleave statement by
\* statement, MaxRequests requests in all.
Start == started < MaxRequests /\ started' = started + 1

NextConc ==
  \E w \in Workers :
    \/ \E query \in ConcQueries : blog_begin(w, query) /\ Start
    \/ \E r \in ConcResponses : update_begin(w, r) /\ Start
    \/ \E tie \in {"asc", "desc"} : ranking(w, tie) /\ Start
    \/ melon_chart(w) /\ Start
    \/ artist_ranking(w) /\ Start
    \/ \E artist_query \in ConcArtistQueries : artist_search(w, artist_query) /\ Start
    \/ exec_update(w) /\ UNCHANGED started
    \/ exec_insert(w) /\ UNCHANGED started
    \/ commit(w) /\ UNCHANGED started
    \/ \E outcome \in {"ok", "api_error"} : blog_search(w, outcome) /\ UNCHANGED started
    \/ exec_delete(w) /\ UNCHANGED started
    \/ exec_insert_item(w) /\ UNCHANGED started
    \/ close_db(w) /\ UNCHANGED started

SpecConc == Init /\ [][NextConc]_vars

\* SpecFault: SpecConc with storage errors.
NextFault ==
  \/ NextConc
  \/ \E w \in Workers : storage_error(w) /\ UNCHANGED started

SpecFault == Init /\ [][NextFault]_vars

(***************************************************************************)
(* Properties                                                              *)
(***************************************************************************)

\* The count search_count holds for keyword k: the sum over its rows.
RECURSIVE CountIn(_, _)
CountIn(rows, k) ==
  IF rows = <<>> THEN 0
  ELSE (IF Head(rows).keyword = k THEN Head(rows).count ELSE 0)
       + CountIn(Tail(rows), k)

RecordsOf(rows, k) == {i \in DOMAIN rows : rows[i].keyword = k}

KeywordsOf(rows) == {rows[i].keyword : i \in DOMAIN rows}

\* Workers inside increment_search_count(k) that have not committed.
Counting(k) ==
  {w \in Workers : /\ req[w].kind = "blog"
                   /\ req[w].query = k
                   /\ pc[w] \in {"update", "insert", "commit"}}

\* Some worker can take its next step.
CanStep ==
  \E w \in Workers :
    ENABLED (exec_update(w) \/ exec_insert(w) \/ commit(w)
             \/ blog_search(w, "ok") \/ exec_delete(w) \/ exec_insert_item(w)
             \/ close_db(w))

\* C1: with workers running record_search side by side from an empty
\* store, no call ends in an exception, the workers that have not finished
\* are never all stuck, and every keyword's stored count is the number of
\* calls made for it less the calls still before their commit: when no call
\* is in progress the count is the number of calls.
C1_NoLostUpdate ==
  /\ \A w \in Workers : pc[w] # "error"
  /\ (\E w \in Workers : pc[w] # "idle") => CanStep
  /\ \A k \in DOMAIN calls \cup KeywordsOf(search_count) :
       /\ Cardinality(RecordsOf(search_count, k)) <= 1
       /\ CountIn(search_count, k) = CallsOf(k) - Cardinality(Counting(k))

\* C1's case: two workers are inside record_search of the same keyword, which
\* has no record yet; one has run its UPDATE and found no row, the other
\* is at its UPDATE.
C1_Witness ==
  \E w1, w2 \in Workers :
    /\ w1 # w2
    /\ req[w1].kind = "blog" /\ req[w2].kind = "blog"
    /\ req[w1].query = req[w2].query
    /\ RecordsOf(search_count, req[w1].query) = {}
    /\ pc[w1] = "insert" /\ pc[w2] = "update"

\* Worker u is inside replace_all: its DELETE is done and its commit is not,
\* whether its inserts go on or one of them has raised.
InReplace(u) ==
  /\ req[u].kind = "update_chart_db"
  /\ write_lock = u
  /\ pc[u] \in {"insert_item", "commit", "error"}

\* What the chart read of kind `kind` with query `query` returns on `rows`.
ChartRead(kind, query, rows) ==
  CASE kind = "melon_chart" -> SelectChart(rows)
    [] kind = "artist_ranking" -> get_artist_count_ranking(rows, DefaultLimit)
    [] kind = "artist_search" ->
         IF query # <<>> THEN SelectByArtist(rows, query) ELSE <<>>

ChartReads == {"melon_chart", "artist_ranking", "artist_search"}

\* C2: a chart read that a worker makes while another worker is inside
\* replace_all returns what it would return on the whole previous snapshot
\* or on the whole new one; while a replace_all is uncommitted the stored
\* snapshot is the previous one, and it still is when the replace_all ends
\* without its commit.
C2_ReplaceIsAtomic ==
  [][\A u \in Workers : InReplace(u) =>
       /\ melon_chart_data = req[u].old
       /\ (pc'[u] # "responded") => melon_chart_data' = req[u].old
       /\ \A w \in Workers \ {u} :
            (pc[w] = "idle" /\ pc'[w] = "responded" /\ req'[w].kind \in ChartReads)
              => resp'[w].rows \in
                   {ChartRead(req'[w].kind, req'[w].query, req[u].old),
                    ChartRead(req'[w].kind, req'[w].query,
                              save_melon_chart_to_db(req[u].old, req[u].data))}
    ]_vars

\* C2's case: a worker has read the chart while another worker's replace_all
\* of a non-empty snapshot had deleted the rows and not yet inserted all of
\* the new ones, and has got the previous snapshot.
C2_Witness ==
  \E u, w \in Workers :
    /\ InReplace(u)
    /\ req[u].old # {}
    /\ tx[u].melon_chart_data # req[u].old
    /\ tx[u].melon_chart_data # save_melon_chart_to_db(req[u].old, req[u].data)
    /\ pc[w] = "responded" /\ req[w].kind = "melon_chart" /\ req[w].overlapped
    /\ resp[w].rows = SelectChart(req[u].old)

\* A request of kind `kind` by worker w has just been answered.
Answered(w, kind) == pc[w] = "responded" /\ req[w].kind = kind

\* C3: a refresh whose fetch failed (the request raised, a status other
\* than 200, an exception while parsing) does not call
\* save_melon_chart_to_db and leaves melon_chart_data as it was, and
\* save_melon_chart_to_db is never called with an empty sequence.
C3_FailedFetchKeepsSnapshot ==
  [][\A w \in Workers :
       (pc[w] = "idle" /\ pc'[w] = "responded" /\ req'[w].kind = "update_chart_db")
         => /\ req'[w].fetch_failed =>
                 ~req'[w].saved /\ melon_chart_data' = melon_chart_data
            /\ req'[w].saved => req'[w].data # <<>>
    ]_vars

\* C3's case: a refresh whose fetch failed has been answered over a stored
\* snapshot that is not empty.
C3_Witness ==
  \E w \in Workers :
    /\ Answered(w, "update_chart_db")
    /\ req[w].fetch_failed
    /\ melon_chart_data # {}

\* The chart row that holds entry e.
RowOf(e) == [ranking |-> e.rank, title |-> e.title, artist |-> e.artist]

\* How often x occurs in the sequence s.
Occurrences(s, x) == Cardinality({i \in DOMAIN s : s[i] = x})

Ascending(result) ==
  \A i, j \in DOMAIN result : i < j => result[i].ranking <= result[j].ranking

\* C4 as claimed: after replace_all(entries) the chart read returns the given
\* entries, each as often as it was given, in ascending rank.
C4_AllEntriesStored ==
  \A w \in Workers :
    (Answered(w, "update_chart_db") /\ req[w].saved) =>
      LET result == SelectChart(melon_chart_data)
          entries == req[w].data
      IN /\ Len(result) = Len(entries)
         /\ \A i \in DOMAIN entries :
              Occurrences(result, RowOf(entries[i])) = Occurrences(entries, entries[i])
         /\ Ascending(result)

\* The entries of a sequence that no later entry of the same rank follows.
LastOfRank(entries) ==
  {RowOf(entries[i]) : i \in {i \in DOMAIN entries :
     \A j \in DOMAIN entries : j > i => entries[j].rank # entries[i].rank}}

\* C4 amended: after replace_all(entries) the chart read returns, in strictly
\* ascending rank, exactly one row for every rank among the entries, holding
\* the last entry given with that rank, and nothing else: no row of the
\* previous snapshot remains, and when the ranks given are distinct every
\* entry is returned.
C4_LastEntryOfEachRankStored ==
  \A w \in Workers :
    (Answered(w, "update_chart_db") /\ req[w].saved) =>
      LET result == SelectChart(melon_chart_data)
      IN /\ {result[i] : i \in DOMAIN result} = LastOfRank(req[w].data)
         /\ \A i, j \in DOMAIN result : i < j => result[i].ranking < result[j].ranking

\* C4's case: replace_all has run on entries two of which share a rank and
\* differ, with an entry of another rank beside them.
C4_Witness ==
  \E w \in Workers :
    /\ Answered(w, "update_chart_db") /\ req[w].saved
    /\ \E i, j, k \in DOMAIN req[w].data :
         /\ i < j
         /\ req[w].data[i].rank = req[w].data[j].rank
         /\ req[w].data[i] # req[w].data[j]
         /\ req[w].data[k].rank # req[w].data[i].rank

\* C5: with requests handled one after another, search_count holds at most
\* one record for a keyword, with a count of at least 1 that is the number
\* of record_search calls made for the keyword, and none for a keyword
\* never searched; no step lowers a count or removes a record.
C5_CountIsNumberOfCalls ==
  /\ [](\A k \in DOMAIN calls \cup KeywordsOf(search_count) :
          /\ Cardinality(RecordsOf(search_count, k)) <= 1
          /\ CountIn(search_count, k) = CallsOf(k)
          /\ \A i \in RecordsOf(search_count, k) : search_count[i].count >= 1)
  /\ [][\A k \in KeywordsOf(search_count) :
          /\ k \in KeywordsOf(search_count')
          /\ CountIn(search_count', k) >= CountIn(search_count, k)]_vars

\* C5's case: one keyword has been searched twice and its record counts 2.
C5_Witness ==
  \E i \in DOMAIN search_count :
    /\ search_count[i].count = 2
    /\ CallsOf(search_count[i].keyword) = 2
    /\ Answered(1, "blog")

\* C6 as claimed: a /blog request whose write to search_count raised does not
\* end in an error response: the search proxy is called and the page rendered.
C6_WriteFailureDoesNotFailRequest ==
  \A w \in Workers :
    (req[w].kind = "blog" /\ req[w].write_failed) =>
      /\ pc[w] \in {"search", "responded"}
      /\ pc[w] = "responded" =>
           /\ resp[w].status = 200
           /\ resp[w].template = "search_blog.html"
           /\ resp[w].searched

\* text contains query as a run of equal characters.
Contains(text, query) ==
  \E i \in 1..(Len(text) - Len(query) + 1) :
    SubSeq(text, i, i + Len(query) - 1) = query

\* C7 as claimed: /artist-search returns, in ascending rank, exactly the
\* stored rows whose artist contains the stripped query character for
\* character, and nothing for a blank query.
C7_LiteralSubstringMatch ==
  \A w \in Workers :
    Answered(w, "artist_search") =>
      LET result == resp[w].rows
          wanted == IF req[w].query = <<>> THEN {}
                    ELSE {r \in melon_chart_data : Contains(r.artist, req[w].query)}
      IN /\ {result[i] : i \in DOMAIN result} = wanted
         /\ Len(result) = Cardinality(wanted)
         /\ Ascending(result)

\* The entry the claim has fetch make of a row.
EntryOf(row) ==
  [rank |-> DecimalValue(strip(row.rank.text)),
   title |-> IF row.title.present THEN strip(row.title.text) ELSE NoTitle,
   artist |-> IF row.artist.present THEN strip(row.artist.text) ELSE NoArtist]

\* The rows the claim has fetch keep: a rank element whose stripped text is
\* not empty and all decimal digits.
RankIsNumber(row) ==
  /\ row.rank.present
  /\ strip(row.rank.text) # <<>>
  /\ \A i \in DOMAIN strip(row.rank.text) : strip(row.rank.text)[i] \in AsciiDigit

RECURSIVE KeptEntries(_)
KeptEntries(rows) ==
  IF rows = <<>> THEN <<>>
  ELSE (IF RankIsNumber(Head(rows)) THEN <<EntryOf(Head(rows))>> ELSE <<>>)
       \o KeptEntries(Tail(rows))

\* C8 as claimed: on a page retrieved with status 200 fetch returns, in page
\* order, the entries of exactly the rows with a numeric rank; a row without
\* one is dropped alone.
C8_BadRankDropsOnlyItsRow ==
  (chart.fetched /\ ~page.raises /\ page.status_code = 200)
    => chart.rows = KeptEntries(page.rows)

\* result is what the claim has artist_song_counts(limit) return on rows.
IsArtistRanking(result, rows, limit) ==
  LET artists == {r.artist : r \in rows}
      Songs(a) == Cardinality({r \in rows : r.artist = a})
      Before(a, b) == Songs(a) > Songs(b) \/ (Songs(a) = Songs(b) /\ TextLess(a, b))
      returned == {result[i].artist : i \in DOMAIN result}
  IN /\ Len(result) <= limit
     /\ Len(result) = IF Cardinality(artists) < limit THEN Cardinality(artists) ELSE limit
     /\ returned \subseteq artists
     /\ \A i \in DOMAIN result : result[i].song_count = Songs(result[i].artist)
     /\ \A i, j \in DOMAIN result : i < j => Before(result[i].artist, result[j].artist)
     /\ \A a \in artists \ returned : \A b \in returned : Before(b, a)

\* C9: on every stored snapshot, get_artist_count_ranking(limit) for every
\* limit from 0 to MaxLimit, and /artist-ranking with its limit of 10, return
\* at most limit pairs, one per artist with the number of its rows, by count
\* descending and then artist ascending, the first limit artists of that
\* order; /artist-ranking leaves both tables as they were.
C9_ArtistRanking ==
  /\ [](/\ \A limit \in 0..MaxLimit :
             IsArtistRanking(get_artist_count_ranking(melon_chart_data, limit),
                             melon_chart_data, limit)
        /\ \A w \in Workers :
             Answered(w, "artist_ranking") =>
               IsArtistRanking(resp[w].rows, melon_chart_data, DefaultLimit))
  /\ [][\A w \in Workers :
          (pc[w] = "idle" /\ pc'[w] = "responded" /\ req'[w].kind = "artist_ranking")
            => /\ melon_chart_data' = melon_chart_data
               /\ search_count' = search_count]_vars

\* C9's case: /artist-ranking has answered over three rows, two of one artist
\* and one of an artist that sorts before it, with the artist of two first.
C9_Witness ==
  \E w \in Workers :
    /\ Answered(w, "artist_ranking")
    /\ Cardinality(melon_chart_data) = 3
    /\ Len(resp[w].rows) = 2
    /\ resp[w].rows[1].song_count = 2
    /\ resp[w].rows[2].song_count = 1
    /\ TextLess(resp[w].rows[2].artist, resp[w].rows[1].artist)
    /\ Len(get_artist_count_ranking(melon_chart_data, 1)) = 1

\* C10: /ranking returns at most 10 rows, each a row of search_count and no
\* row twice, their counts never rising from one to the next, and no row
\* left out counts more than a row returned; it leaves search_count as it
\* was.
C10_TopKeywords ==
  /\ [](\A w \in Workers :
          Answered(w, "ranking") =>
            LET result == resp[w].rows
            IN /\ Len(result) <= RankingLimit
               /\ \A i \in DOMAIN result :
                    \E n \in DOMAIN search_count : search_count[n] = result[i]
               /\ \A i, j \in DOMAIN result :
                    i < j => /\ result[i].keyword # result[j].keyword
                             /\ result[i].count >= result[j].count
               /\ \A n \in DOMAIN search_count :
                    (\A i \in DOMAIN result : result[i] # search_count[n])
                      => /\ Len(result) = RankingLimit
                         /\ \A i \in DOMAIN result :
                              search_count[n].count <= result[i].count)
  /\ [][\A w \in Workers :
          (pc[w] = "idle" /\ pc'[w] = "responded" /\ req'[w].kind = "ranking")
            => search_count' = search_count]_vars

\* C10's case: /ranking has answered over 11 keywords of differing counts
\* with 10 rows, the keyword searched last and most among them.
C10_Witness ==
  \E w \in Workers :
    /\ Answered(w, "ranking")
    /\ Len(search_count) > RankingLimit
    /\ Len(resp[w].rows) = RankingLimit
    /\ search_count[Len(search_count)].count = 2
    /\ resp[w].rows[1] = search_count[Len(search_count)]
    /\ resp[w].rows[2].count = 1

=============================================================================
